---- MODULE Spec2Model ----
(***************************************************************************)
(* Point-target radar adjoint operators of radarmodel/libpoint_adjoint.pyx *)
(*                                                                         *)
(*   x[n, p] = sum_m 1/sqrt(N) * e^{-2 pi i n m/N} * s*[R m - p] * y[m]    *)
(*                                                                         *)
(* direct_sum : brute-force sum over the support window of each column p,  *)
(*              the p loop run by parallel workers (prange).               *)
(* codefreq   : demodulation into demodpad, one batched transform into     *)
(*              x_aligned, strided transposed copy into the output.        *)
(*                                                                         *)
(* Arithmetic is exact.  A number is                                        *)
(*        (re + i im + (sre + i sim) sqrt(N)) / N^k                        *)
(* with integer re, im, sre, sim and k >= 0, kept in lowest terms, so that *)
(* conj(s)/sqrt(N) and the executor's factor sqrt(N) are represented and   *)
(* not cancelled by the model.                                             *)
(***************************************************************************)
EXTENDS Integers, Sequences, FiniteSets, TLC

\* ------------------------------------------------------------------ bounds
MaxM == 2
MaxL == 2
MaxCalls == 2
PadCols == 1

\* Values of the construction parameters that are explored.
Decimations == {1, 2}
TransformSizes == {1, 2}
Strides == {1, 2}
Workers == {"w1", "w2"}
Threads == {"t1", "t2"}

VARIABLES
    R,          \* decimation factor
    M,          \* dftmat.shape[1] (direct_sum), signal length (codefreq)
    L,          \* waveform length, s.shape[0]
    N,          \* dftmat.shape[0], transform size
    step,       \* output stride of codefreq
    s,          \* the caller's waveform, [0..L-1 -> number]
    dftmat,     \* [0..N-1 -> [0..M-1 -> number]]
    y,          \* the signal of the direct_sum call in flight
    x,          \* the output array of the direct_sum call in flight; x[n][p] is
                \* [val: the element, cnt: times assigned,
                \*  ms: the m indices summed into val, in order]
    ran,        \* the workers that have run an iteration of the call in flight
    todo,       \* iterations p of the prange not yet handed to a worker
    worker,     \* each worker's private variables (p, n, m, mstart, mstop, xnp)
    dspc,       \* "ready", "running", "returned", "crashed"
    demodpad0,  \* demodpad as the caller supplied it at construction
    demodpad,   \* [0..R*M-1 -> [0..PadLen-1 -> number]]
    x_aligned,  \* [0..R*M-1 -> [0..step*N-1 -> number]]
    call,       \* each thread's codefreq call
    hist        \* the returned codefreq calls, in order of return

cfgVars == <<R, M, L, N, step, s, dftmat>>
dsVars == <<y, x, ran, todo, worker, dspc>>
cfVars == <<demodpad0, demodpad, x_aligned, call, hist>>
vars == <<cfgVars, dsVars, cfVars>>

\* ------------------------------------------------------- exact arithmetic
Num(a, b, c, d, e) == [re |-> a, im |-> b, sre |-> c, sim |-> d, k |-> e]
G(a, b) == Num(a, b, 0, 0, 0)
Zero == G(0, 0)
One == G(1, 0)

Divides(d, a) == a % d = 0

\* sqrt(N) is an integer q when N = q*q: fold the sqrt(N) part into the rest
Fold(z) ==
    IF \E q \in 1..N : q * q = N
    THEN LET q == CHOOSE r \in 1..N : r * r = N
         IN Num(z.re + q * z.sre, z.im + q * z.sim, 0, 0, z.k)
    ELSE z

RECURSIVE Reduce(_)
Reduce(z) ==
    IF z.k > 0 /\ Divides(N, z.re) /\ Divides(N, z.im)
               /\ Divides(N, z.sre) /\ Divides(N, z.sim)
    THEN Reduce(Num(z.re \div N, z.im \div N, z.sre \div N, z.sim \div N, z.k - 1))
    ELSE z

\* lowest terms
Norm(z) == Reduce(Fold(z))

RECURSIVE Scale(_, _)
Scale(z, j) ==
    IF j = 0 THEN z
    ELSE Scale(Num(z.re * N, z.im * N, z.sre * N, z.sim * N, z.k + 1), j - 1)

CAdd(a, b) ==
    LET kk == IF a.k >= b.k THEN a.k ELSE b.k
        aa == Scale(a, kk - a.k)
        bb == Scale(b, kk - b.k)
    IN Norm(Num(aa.re + bb.re, aa.im + bb.im, aa.sre + bb.sre, aa.sim + bb.sim, kk))

CMul(a, b) ==
    Norm(Num(a.re * b.re - a.im * b.im + N * (a.sre * b.sre - a.sim * b.sim),
             a.re * b.im + a.im * b.re + N * (a.sre * b.sim + a.sim * b.sre),
             a.re * b.sre - a.im * b.sim + a.sre * b.re - a.sim * b.im,
             a.re * b.sim + a.im * b.sre + a.sre * b.im + a.sim * b.re,
             a.k + b.k))

Conj(z) == Num(z.re, -z.im, z.sre, -z.sim, z.k)

SqrtN == Norm(Num(0, 0, 1, 0, 0))
\* 1/sqrt(N) = sqrt(N)/N
InvSqrtN == Norm(Num(0, 0, 1, 0, 1))

RECURSIVE Pow(_, _)
Pow(z, e) == IF e = 0 THEN One ELSE CMul(z, Pow(z, e - 1))

\* C integer division (cython.cdivision(True)): truncation toward zero.
CDiv(a, b) == IF a >= 0 THEN a \div b ELSE -((-a) \div b)

Min(a, b) == IF a <= b THEN a ELSE b

Len0(f) == Cardinality(DOMAIN f)

\* ------------------------------------------------------------ input values
Waveforms(len) ==
    { [k \in 0..(len - 1) |-> One],
      [k \in 0..(len - 1) |-> IF k % 2 = 0 THEN G(0, 1) ELSE G(1, 1)] }

Signals(len) ==
    { [m \in 0..(len - 1) |-> IF m = 0 THEN One ELSE Zero],
      [m \in 0..(len - 1) |-> G(m + 1, 1)] }

\* dftmat[n][m] = w^(n m) for a root of unity w; w = -1 gives [[1,1],[1,-1]]
Roots == {G(-1, 0), G(0, 1)}
DftMatrix(w, nn, mm) ==
    [n \in 0..(nn - 1) |-> [m \in 0..(mm - 1) |-> Pow(w, n * m)]]

\* What freshly allocated or out-of-bounds memory may hold.
UninitVals == {Zero, G(7, 7)}

\* ------------------------------------------------------ construction state
RM == R * M

ConfigInit ==
    /\ R \in Decimations
    /\ M \in 1..MaxM
    /\ L \in 1..MaxL
    /\ N \in TransformSizes
    /\ s \in Waveforms(L)
    /\ \E w \in Roots : dftmat = DftMatrix(w, N, M)

\* DirectSumCython: s_conj = np.conj(s)
s_conj == [k \in DOMAIN s |-> Conj(s[k])]

\* Reads of the fixed inputs.  The kernels are compiled with boundscheck(False):
\* an index outside the array reads whatever lies there.
OutOfBounds == G(7, 7)
ReadS(arr, k) == IF k \in DOMAIN arr THEN arr[k] ELSE OutOfBounds
ReadDft(n, m) ==
    IF n \in DOMAIN dftmat /\ m \in DOMAIN dftmat[n] THEN dftmat[n][m] ELSE OutOfBounds

\* ---------------------------------------------------------------- windows
\* direct_sum: mstart = (p - 1 + R)//R
mstartDS_noOffset(p) == CDiv(p - 1, R) + 1
mstartDS(p) == CDiv(p - 1 + R, R)

\* direct_sum: mstop = min(M, (p + L - 1)//R + 1)
mstopDS_offByOne(p) == Min(M, CDiv(p + L, R) + 1)
mstopDS(p) == Min(M, CDiv(p + L - 1, R) + 1)

\* codefreq: the same two lines
mstartCF(p) == CDiv(p - 1 + R, R)
mstopCF(p) == Min(M, CDiv(p + L - 1, R) + 1)

\* ------------------------------------------------------------- direct_sum
IdleWorker ==
    [pc |-> "idle", p |-> 0, n |-> 0, m |-> 0, mstart |-> 0, mstop |-> 0,
     xnp |-> Zero, ms |-> <<>>]

\* np.PyArray_EMPTY: the elements hold whatever the memory held
EmptyArray(fill) ==
    [n \in 0..(N - 1) |->
        [p \in 0..(RM - 1) |-> [val |-> fill, cnt |-> 0, ms |-> <<>>]]]

\* the call of the closure direct_sum_cython(y): allocate x, enter the prange
DSCall(yy, fill) ==
    /\ dspc \in {"ready", "returned"}
    /\ y' = yy
    /\ x' = EmptyArray(fill)
    /\ ran' = {}
    /\ todo' = 0..(RM - 1)
    /\ worker' = [w \in Workers |-> IdleWorker]
    /\ dspc' = "running"
    /\ UNCHANGED <<cfgVars, cfVars>>

\* a worker takes iteration p of the prange and computes its window
StartIter(w, p) ==
    /\ dspc = "running"
    /\ worker[w].pc = "idle"
    /\ p \in todo
    /\ todo' = todo \ {p}
    /\ ran' = ran \cup {w}
    /\ worker' = [worker EXCEPT ![w] =
           [pc |-> "loop", p |-> p, n |-> 0, m |-> mstartDS(p),
            mstart |-> mstartDS(p), mstop |-> mstopDS(p), xnp |-> Zero, ms |-> <<>>]]
    /\ UNCHANGED <<cfgVars, cfVars, y, x, dspc>>

\* xnp = xnp + s_conj[R*m - p]*dftmat[n, m]*y[m]
XnpNext_noAccumulate(wk, ym) ==
    CMul(CMul(ReadS(s_conj, R * wk.m - wk.p), ReadDft(wk.n, wk.m)), ym)
XnpNext(wk, ym) ==
    CAdd(wk.xnp, CMul(CMul(ReadS(s_conj, R * wk.m - wk.p), ReadDft(wk.n, wk.m)), ym))

AccumulateWith(w, ym) ==
    /\ worker' = [worker EXCEPT ![w].xnp = XnpNext(worker[w], ym),
                                ![w].m = @ + 1,
                                ![w].ms = Append(@, worker[w].m)]
    /\ UNCHANGED <<cfgVars, cfVars, y, x, ran, todo, dspc>>

\* one pass of the m loop, y[m] inside the signal
Accumulate(w) ==
    /\ dspc = "running"
    /\ worker[w].pc = "loop"
    /\ worker[w].m < worker[w].mstop
    /\ worker[w].m \in DOMAIN y
    /\ AccumulateWith(w, y[worker[w].m])

\* one pass of the m loop, y[m] past the end of the signal (boundscheck(False)):
\* the read returns what lies behind the buffer ...
AccumulateOOB(w, g) ==
    /\ dspc = "running"
    /\ worker[w].pc = "loop"
    /\ worker[w].m < worker[w].mstop
    /\ worker[w].m \notin DOMAIN y
    /\ AccumulateWith(w, g)

\* ... or the process dies on the access
CrashOOB(w) ==
    /\ dspc = "running"
    /\ worker[w].pc = "loop"
    /\ worker[w].m < worker[w].mstop
    /\ worker[w].m \notin DOMAIN y
    /\ dspc' = "crashed"
    /\ UNCHANGED <<cfgVars, cfVars, y, x, ran, todo, worker>>

\* x[n, p] = xnp, after the m loop
XAfterStore_skipEmptyWindow(w) ==
    IF worker[w].mstart < worker[w].mstop
    THEN [x EXCEPT ![worker[w].n][worker[w].p] =
             [val |-> worker[w].xnp, cnt |-> @.cnt + 1,
              ms |-> worker[w].ms]]
    ELSE x
XAfterStore(w) ==
    [x EXCEPT ![worker[w].n][worker[w].p] =
        [val |-> worker[w].xnp, cnt |-> @.cnt + 1,
         ms |-> worker[w].ms]]

\* the end of the m loop: store the element, go to the next n or end the iteration
Store(w) ==
    /\ dspc = "running"
    /\ worker[w].pc = "loop"
    /\ worker[w].m >= worker[w].mstop
    /\ x' = XAfterStore(w)
    /\ worker' = [worker EXCEPT ![w] =
           IF worker[w].n + 1 < N
           THEN [@ EXCEPT !.n = @ + 1, !.m = worker[w].mstart, !.xnp = Zero,
                          !.ms = <<>>]
           ELSE IdleWorker]
    /\ UNCHANGED <<cfgVars, cfVars, y, ran, todo, dspc>>

\* the end of the prange (all iterations done): return x_ndarray
DSReturn ==
    /\ dspc = "running"
    /\ todo = {}
    /\ \A w \in Workers : worker[w].pc = "idle"
    /\ dspc' = "returned"
    /\ UNCHANGED <<cfgVars, cfVars, y, x, ran, todo, worker>>

\* The array one direct_sum call returns for a signal yy of length M: the n and
\* m loops of one iteration p, run to the end.
RECURSIVE InnerLoop(_, _)
InnerLoop(wk, yy) ==
    IF wk.m >= wk.mstop THEN wk.xnp
    ELSE InnerLoop([wk EXCEPT !.xnp = XnpNext(wk, ReadS(yy, wk.m)), !.m = @ + 1], yy)

DirectSumX(yy) ==
    [n \in 0..(N - 1) |->
        [p \in 0..(RM - 1) |->
            InnerLoop([pc |-> "loop", p |-> p, n |-> n, m |-> mstartDS(p),
                       mstart |-> mstartDS(p), mstop |-> mstopDS(p),
                       xnp |-> Zero, ms |-> <<>>], yy)]]

NoCodeFreq ==
    /\ step = 1
    /\ demodpad0 = <<>>
    /\ demodpad = <<>>
    /\ x_aligned = <<>>
    /\ call = <<>>
    /\ hist = <<>>

InitDS ==
    /\ ConfigInit
    /\ NoCodeFreq
    /\ y = <<>>
    /\ x = <<>>
    /\ ran = {}
    /\ todo = {}
    /\ worker = [w \in Workers |-> IdleWorker]
    /\ dspc = "ready"

\* direct_sum called as documented, with a signal of length M
NextDS ==
    \/ \E yy \in Signals(M), fill \in UninitVals : DSCall(yy, fill)
    \/ \E w \in Workers, p \in 0..(RM - 1) : StartIter(w, p)
    \/ \E w \in Workers : Accumulate(w)
    \/ \E w \in Workers : Store(w)
    \/ DSReturn

SpecDS == InitDS /\ [][NextDS]_vars

\* direct_sum called with a signal of any length near M
SignalsNear == UNION { Signals(len) : len \in { k \in (M - 1)..(M + 1) : k >= 0 } }

NextShape ==
    \/ \E yy \in SignalsNear, fill \in UninitVals : DSCall(yy, fill)
    \/ \E w \in Workers, p \in 0..(RM - 1) : StartIter(w, p)
    \/ \E w \in Workers : Accumulate(w)
    \/ \E w \in Workers, g \in UninitVals : AccumulateOOB(w, g)
    \/ \E w \in Workers : CrashOOB(w)
    \/ \E w \in Workers : Store(w)
    \/ DSReturn

SpecShape == InitDS /\ [][NextShape]_vars

\* --------------------------------------------------------------- codefreq
PadLen == M + PadCols
Rows == 0..(RM - 1)

\* CodeFreqCython: s_conj_over_sqrtN = np.conj(s)/np.sqrt(N)
s_conj_over_sqrtN_notNormalized == [k \in DOMAIN s |-> Conj(s[k])]
s_conj_over_sqrtN == [k \in DOMAIN s |-> CMul(Conj(s[k]), InvSqrtN)]

InWindowCF(p, m) == mstartCF(p) <= m /\ m < mstopCF(p)

\* the m loop of codefreq on row p:
\*     demodpad[p, m] = s_conj_over_sqrtN[R*m - p]*y[m]
DemodRowCells_skipZeroSamples(row, p, yy) ==
    [m \in DOMAIN row |->
        IF InWindowCF(p, m) /\ ReadS(yy, m) # Zero
        THEN CMul(ReadS(s_conj_over_sqrtN, R * m - p), ReadS(yy, m))
        ELSE row[m]]
DemodRowCells_wholeBlock(row, p, yy) ==
    [m \in DOMAIN row |->
        IF InWindowCF(p, m)
        THEN CMul(ReadS(s_conj_over_sqrtN, R * m - p), ReadS(yy, m))
        ELSE IF m < M THEN Zero ELSE row[m]]
DemodRowCells(row, p, yy) ==
    [m \in DOMAIN row |->
        IF InWindowCF(p, m)
        THEN CMul(ReadS(s_conj_over_sqrtN, R * m - p), ReadS(yy, m))
        ELSE row[m]]

\* The transform executor bound to demodpad (input) and x_aligned (output).
\* Output column step*n of row p is sum_m sqrt(N)*dftmat[n, m]*demodpad[p, m];
\* the basis of the padding columns and of the columns the stride skips is
\* not fixed by the kernel and is taken to be 1.
FFTBasis(k, m) ==
    IF k % step = 0 /\ m < M THEN ReadDft(k \div step, m) ELSE One

RECURSIVE FFTSum(_, _, _)
FFTSum(row, k, m) ==
    IF m >= Len0(row) THEN Zero
    ELSE CAdd(CMul(CMul(SqrtN, FFTBasis(k, m)), row[m]), FFTSum(row, k, m + 1))

Transform(pad) ==
    [p \in DOMAIN pad |-> [k \in 0..(step * N - 1) |-> FFTSum(pad[p], k, 0)]]

\* x[:, :] = x_aligned.T[::step, :]
Relayout_noStride(xa) == [n \in 0..(N - 1) |-> [p \in Rows |-> xa[p][n]]]
Relayout(xa) == [n \in 0..(N - 1) |-> [p \in Rows |-> xa[p][n * step]]]

IdleCall == [pc |-> "idle", y |-> <<>>, rows |-> {}, out |-> <<>>, alone |-> TRUE]
InFlight(t) == call[t].pc \in {"demod", "fft", "relayout"}
Started == Len(hist) + Cardinality({t \in Threads : InFlight(t)})

\* the other calls in flight have had the shared buffers changed under them
Disturb(t) ==
    [u \in Threads |->
        IF u # t /\ InFlight(u) THEN [call[u] EXCEPT !.alone = FALSE] ELSE call[u]]

\* the call of the closure codefreq_cython(y)
CFBegin(t, yy) ==
    /\ call[t].pc \in {"idle", "returned"}
    /\ Started < MaxCalls
    /\ call' = [call EXCEPT ![t] =
           [pc |-> "demod", y |-> yy, rows |-> {}, out |-> <<>>, alone |-> TRUE]]
    /\ UNCHANGED <<cfgVars, dsVars, demodpad0, demodpad, x_aligned, hist>>

\* iteration p of the demodulation prange
DemodRow(t, p) ==
    /\ call[t].pc = "demod"
    /\ p \in Rows \ call[t].rows
    /\ demodpad' = [demodpad EXCEPT ![p] = DemodRowCells(@, p, call[t].y)]
    /\ call' = [Disturb(t) EXCEPT ![t] =
           [call[t] EXCEPT !.rows = @ \cup {p},
                           !.pc = IF call[t].rows \cup {p} = Rows THEN "fft" ELSE @]]
    /\ UNCHANGED <<cfgVars, dsVars, demodpad0, x_aligned, hist>>

\* fft.execute()
FFTExecute(t) ==
    /\ call[t].pc = "fft"
    /\ x_aligned' = Transform(demodpad)
    /\ call' = [Disturb(t) EXCEPT ![t] = [call[t] EXCEPT !.pc = "relayout"]]
    /\ UNCHANGED <<cfgVars, dsVars, demodpad0, demodpad, hist>>

\* x[:, :] = x_aligned.T[::step, :]; return x_ndarray
CFReturn(t) ==
    /\ call[t].pc = "relayout"
    /\ call' = [call EXCEPT ![t].pc = "returned", ![t].out = Relayout(x_aligned)]
    /\ hist' = Append(hist, [y |-> call[t].y, x |-> Relayout(x_aligned)])
    /\ UNCHANGED <<cfgVars, dsVars, demodpad0, demodpad, x_aligned>>

\* demodpad as the caller may hand it over: zeroed, holding old data in the
\* support windows only, or holding old data everywhere
OldData == G(3, 0)
PadChoices ==
    { [p \in Rows |-> [m \in 0..(PadLen - 1) |-> Zero]],
      [p \in Rows |-> [m \in 0..(PadLen - 1) |-> IF InWindowCF(p, m) THEN OldData ELSE Zero]],
      [p \in Rows |-> [m \in 0..(PadLen - 1) |-> OldData]] }

NoDirectSum ==
    /\ y = <<>>
    /\ x = <<>>
    /\ ran = {}
    /\ todo = {}
    /\ worker = [w \in Workers |-> IdleWorker]
    /\ dspc = "ready"

InitCF ==
    /\ ConfigInit
    /\ step \in Strides
    /\ NoDirectSum
    /\ demodpad0 \in PadChoices
    /\ demodpad = demodpad0
    /\ x_aligned = [p \in Rows |-> [k \in 0..(step * N - 1) |-> Zero]]
    /\ call = [t \in Threads |-> IdleCall]
    /\ hist = <<>>

\* calls on one operator from one thread, one after the other
Caller == "t1"

NextCF ==
    \/ \E yy \in Signals(M) : CFBegin(Caller, yy)
    \/ \E p \in Rows : DemodRow(Caller, p)
    \/ FFTExecute(Caller)
    \/ CFReturn(Caller)

SpecCF == InitCF /\ [][NextCF]_vars

\* calls on one operator from two threads, not serialized; the buffers are
\* zeroed at construction
InitConc ==
    /\ InitCF
    /\ \A p \in Rows, m \in 0..(PadLen - 1) : demodpad0[p][m] = Zero

\* each thread makes one call; a call demodulates its rows in increasing p,
\* and the two calls interleave row by row
CFBeginOnce(t, yy) ==
    /\ call[t].pc = "idle"
    /\ CFBegin(t, yy)

DemodNextRow(t, p) ==
    /\ \A q \in Rows \ call[t].rows : p <= q
    /\ DemodRow(t, p)

NextConc ==
    \/ \E t \in Threads, yy \in Signals(M) : CFBeginOnce(t, yy)
    \/ \E t \in Threads, p \in Rows : DemodNextRow(t, p)
    \/ \E t \in Threads : FFTExecute(t)
    \/ \E t \in Threads : CFReturn(t)

SpecConc == InitConc /\ [][NextConc]_vars

\* =================================================================== claims
\* The support window of output column p as the specification defines it.
Support(p) == { m \in 0..(M - 1) : 0 <= R * m - p /\ R * m - p <= L - 1 }

\* lo, lo+1, ..., hi-1 as a sequence
RECURSIVE Ascending(_, _)
Ascending(lo, hi) == IF lo >= hi THEN <<>> ELSE <<lo>> \o Ascending(lo + 1, hi)

\* sum over the m < hi of Support(p), in increasing order starting from 0, of
\* conj(s)[R m - p] * dftmat[n, m] * yy[m]
RECURSIVE RefSum(_, _, _, _, _, _)
RefSum(n, p, yy, m, hi, acc) ==
    IF m >= hi THEN acc
    ELSE RefSum(n, p, yy, m + 1, hi,
                IF m \in Support(p)
                THEN CAdd(acc, CMul(CMul(Conj(s[R * m - p]), dftmat[n][m]), yy[m]))
                ELSE acc)

ZeroOutsideWindows(pad) ==
    \A p \in Rows, m \in 0..(PadLen - 1) : m \notin Support(p) => pad[p][m] = Zero

IterationsRun == dspc \in {"running", "returned"}

\* ---- C2
\* For every p in [0, R*M) the range [mstart, mstop) computed by direct_sum holds
\* exactly the m with 0 <= m < M and 0 <= R*m - p <= L - 1, the range a worker
\* loops over is that range, and codefreq computes the same two numbers.
C2_WindowExact ==
    /\ \A p \in 0..(RM - 1) :
          /\ (mstartDS(p)..(mstopDS(p) - 1)) = Support(p)
          /\ mstartDS(p) = mstartCF(p)
          /\ mstopDS(p) = mstopCF(p)
    /\ \A w \in Workers :
          worker[w].pc = "loop" =>
             (worker[w].mstart..(worker[w].mstop - 1)) = Support(worker[w].p)

C2_Witness ==
    /\ R = 2 /\ M = 2 /\ L = 2
    /\ \E w \in Workers :
          /\ worker[w].pc = "loop"
          /\ worker[w].p = 1
          /\ worker[w].mstart = 1
          /\ worker[w].mstop = 2
    /\ Support(0) = {0}
    /\ Support(3) = {}

\* ---- C4
\* In a direct_sum call each iteration p is held by one worker at a time, and
\* x[n, p] has been assigned exactly as often as that worker has passed row n:
\* never before p is taken, once after, never twice; when the call has returned
\* every element has been assigned exactly once, the columns with an empty
\* support window included.
C4_AssignedExactlyOnce ==
    IterationsRun =>
       /\ \A w, u \in Workers :
             (w # u /\ worker[w].pc = "loop" /\ worker[u].pc = "loop") =>
                worker[w].p # worker[u].p
       /\ \A n \in 0..(N - 1), p \in 0..(RM - 1) :
             /\ x[n][p].cnt =
                   IF p \in todo THEN 0
                   ELSE IF \E w \in Workers : worker[w].pc = "loop" /\ worker[w].p = p
                        THEN IF \E w \in Workers : /\ worker[w].pc = "loop"
                                                   /\ worker[w].p = p
                                                   /\ n < worker[w].n
                             THEN 1 ELSE 0
                        ELSE 1
             /\ dspc = "returned" => x[n][p].cnt = 1

C4_Witness ==
    /\ dspc = "returned"
    /\ N = 2 /\ R = 2 /\ M = 2
    /\ ran = Workers
    /\ \E p \in 0..(RM - 1) : Support(p) = {} /\ x[0][p].cnt = 1 /\ x[1][p].cnt = 1
    /\ \A n \in 0..(N - 1), p \in 0..(RM - 1) : x[n][p].cnt = 1

\* ---- C6
\* Whatever the schedule of the p loop, the private accumulator of a worker holds
\* the sum over m = mstart, ..., m-1 taken in increasing order starting from 0,
\* each stored x[n, p] is that sum over the whole window, and so the returned
\* array is the one array the inputs determine.
C6_ScheduleIndependent ==
    IterationsRun =>
       /\ \A w \in Workers :
             worker[w].pc = "loop" =>
                /\ worker[w].ms = Ascending(mstartDS(worker[w].p), worker[w].m)
                /\ worker[w].xnp =
                      RefSum(worker[w].n, worker[w].p, y, 0, worker[w].m, Zero)
       /\ \A n \in 0..(N - 1), p \in 0..(RM - 1) :
             /\ x[n][p].cnt >= 1 =>
                   /\ x[n][p].val = RefSum(n, p, y, 0, M, Zero)
                   /\ x[n][p].ms = Ascending(mstartDS(p), mstopDS(p))
             /\ dspc = "returned" => x[n][p].cnt >= 1

C6_Witness ==
    /\ dspc = "returned"
    /\ ran = Workers
    /\ R = 1 /\ M = 2 /\ L = 2 /\ N = 2
    /\ x[1][0].ms = <<0, 1>>
    /\ x[1][0].val = RefSum(1, 0, y, 0, M, Zero)
    /\ x[1][0].val # Zero
    /\ x[1][0].val # x[1][1].val

\* ---- C8
\* With a waveform of length 1, column p of the returned array is
\* conj(s)[0]*dftmat[n, p/R]*y[p/R] when R divides p (one sample, m = p/R) and is
\* zero, with an empty window, when R does not divide p.
C8_SingleSampleWaveform ==
    (L = 1 /\ dspc = "returned") =>
       \A n \in 0..(N - 1), p \in 0..(RM - 1) :
          IF p % R = 0
          THEN /\ x[n][p].ms = <<p \div R>>
               /\ x[n][p].val = CMul(CMul(Conj(s[0]), dftmat[n][p \div R]), y[p \div R])
          ELSE /\ x[n][p].ms = <<>>
               /\ x[n][p].val = Zero

C8_Witness ==
    /\ L = 1 /\ R = 2 /\ M = 2 /\ N = 2
    /\ dspc = "returned"
    /\ x[1][0].val # Zero
    /\ x[1][2].ms = <<1>>
    /\ x[1][RM - 1].val = Zero
    /\ x[1][RM - 1].cnt = 1

\* ---- C9
C9_Case ==
    /\ R = 1 /\ N = 2 /\ M = 2 /\ L = 2
    /\ s = [k \in 0..1 |-> One]
    /\ dftmat = DftMatrix(G(-1, 0), 2, 2)
    /\ dspc = "returned"
    /\ y = [m \in 0..1 |-> IF m = 0 THEN One ELSE Zero]

\* C9 as stated: in the 2x2 example only m = 0 is summed into column p = 0, and
\* the column is x[n, 0] = dftmat[n, 0]*1*y[0].
C9_OnlyMZero ==
    C9_Case =>
       \A n \in 0..1 :
          /\ x[n][0].ms = <<0>>
          /\ x[n][0].val = CMul(CMul(One, dftmat[n][0]), y[0])

\* C9 amended: in the 2x2 example both m = 0 and m = 1 lie in the window of
\* column p = 0 and are summed; the column still is x[n, 0] = dftmat[n, 0]*1*y[0]
\* because y[1] = 0.
C9_BothMInWindow ==
    C9_Case =>
       \A n \in 0..1 :
          /\ Support(0) = {0, 1}
          /\ x[n][0].ms = <<0, 1>>
          /\ x[n][0].val = CMul(CMul(One, dftmat[n][0]), y[0])

C9_Witness ==
    /\ C9_Case
    /\ x[0][0].val = One
    /\ x[1][0].val = One
    /\ x[1][0].cnt = 1

\* ---- C7
\* C7 as stated: a direct_sum call with a signal whose length is not M computes
\* no element of the output and never returns an array (it ends in a
\* shape-mismatch error instead).
C7_ShapeMismatchFailsFast ==
    (dspc # "ready" /\ Len0(y) # M) =>
       /\ dspc # "returned"
       /\ \A w \in Workers : worker[w].ms = <<>>
       /\ \A n \in 0..(N - 1), p \in 0..(RM - 1) : x[n][p].cnt = 0

\* ---- C1
\* When demodpad is zero outside the support windows, a codefreq call that runs
\* alone returns, element for element, the array direct_sum returns for the same
\* signal.
C1_CodeFreqEqualsDirectSum ==
    \A t \in Threads :
       (call[t].pc = "returned" /\ ZeroOutsideWindows(demodpad)) =>
          \A n \in 0..(N - 1), p \in 0..(RM - 1) :
             call[t].out[n][p] = DirectSumX(call[t].y)[n][p]

C1_Witness ==
    /\ call[Caller].pc = "returned"
    /\ ZeroOutsideWindows(demodpad)
    /\ demodpad0[0][0] = OldData
    /\ N = 2 /\ step = 2 /\ R = 2 /\ L = 2 /\ M = 2
    /\ call[Caller].out = DirectSumX(call[Caller].y)
    /\ call[Caller].out[1][1] # Zero
    /\ call[Caller].out[1][1] # call[Caller].out[0][1]

\* ---- C3
\* On an operator whose demodpad started zero outside the support windows, every
\* call of a sequence of calls returned what direct_sum gives for that call's
\* signal, whatever the earlier calls left in demodpad and x_aligned.
C3_RepeatedCalls ==
    ZeroOutsideWindows(demodpad0) =>
       \A c \in 1..Len(hist) : hist[c].x = DirectSumX(hist[c].y)

C3_Witness ==
    /\ ZeroOutsideWindows(demodpad0)
    /\ Len(hist) = 2
    /\ hist[1].y # hist[2].y
    /\ hist[1].x # hist[2].x
    /\ hist[2].y[M - 1] = Zero
    /\ hist[1].y[M - 1] # Zero
    /\ M = 2
    /\ hist[2].x = DirectSumX(hist[2].y)

C5_WrongOnlyWhenInterleaved ==
    \A t \in Threads :
       (call[t].pc = "returned" /\ call[t].alone) =>
          call[t].out = DirectSumX(call[t].y)

C5_Witness ==
    \E t, u \in Threads :
       /\ call[t].pc = "returned"
       /\ InFlight(u) \/ call[u].pc = "returned"
       /\ call[u].y # call[t].y
       /\ ~call[t].alone
       /\ call[t].out # DirectSumX(call[t].y)

====
